---- MODULE Spec2Model ----
(***************************************************************************)
(* A model of setup_example_repos.py: the batch run of main() over the     *)
(* discovered examples (Spec), the source cleaner _clean_python_file as a  *)
(* line state machine (SpecClean), the README writer _create_clean_readme  *)
(* (SpecReadme) and the asset scan find_example_assets (SpecAssets).       *)
(*                                                                         *)
(* Text is a sequence of tokens.  A token is one character (" ", "=", the  *)
(* newline NL) or one of the multi-character words the code searches for.  *)
(* A line is a token sequence without NL.                                  *)
(***************************************************************************)
EXTENDS Integers, Sequences, FiniteSets, TLC

VARIABLES
    \* ---- the run of main()
    dry_run,        \* args.dry_run
    example,        \* args.example: [given |-> FALSE, ...] is None, else the string `value`
    source_exists,  \* args.source.exists()
    src_py,         \* stems of the *.py files of the source directory
    src_md,         \* stems of the *.md files of the source directory
    asset_exists,   \* the <<subdir, file>> pairs that exist under the source directory
    pc,             \* position of the run
    examples,       \* the list main() iterates over
    idx,            \* index of the example in process
    fs,             \* paths created under the target directory: <<example, path>>
    trace,          \* the mutating calls made so far, in order
    cwd,            \* the process's current working directory
    cwd0,           \* the working directory the process was started in
    saved_cwd,      \* the local `cwd` of _init_git_repo
    failed_step,    \* the step of _init_git_repo that raised ("none" if none)
    status,         \* what main() returned: "running", 0, 1 or "raised"
    printed,        \* the [DRY RUN] lines printed
    created_repos,  \* main()'s created_repos
    \* ---- _clean_python_file
    content,        \* the text of main.py
    lines,          \* content.split('\n')
    li,             \* index of the line the loop is at
    cleaned_lines,
    in_doc_block,
    in_with_block,
    cpc,            \* position in _clean_python_file
    pass,           \* 1: first cleaning of the file, 2: cleaning of the cleaned file
    first,          \* the text written by the first cleaning
    \* ---- _create_clean_readme
    md_content,     \* the text of the documentation file
    readme,         \* the text written to README.md
    rpc,            \* position in _create_clean_readme
    \* ---- find_example_assets
    py_refs,        \* the asset references of the source text, in text order
    assets,         \* the list `assets` of find_example_assets
    apc             \* position in find_example_assets

mainVars == <<dry_run, example, source_exists, src_py, src_md, pc, examples, idx,
              fs, trace, cwd, cwd0, saved_cwd, failed_step, status, printed,
              created_repos>>
cleanVars == <<content, lines, li, cleaned_lines, in_doc_block, in_with_block,
               cpc, pass, first>>
readmeVars == <<md_content, readme, rpc>>
assetVars == <<py_refs, assets, apc>>
vars == <<mainVars, cleanVars, readmeVars, assetVars, asset_exists>>

\* ------------------------------------------------------------------ bounds
MaxLines == 3
MaxDocLines == 3
MaxRefs == 3

\* ------------------------------------------------------------- text helpers
NL == "\n"
QQQ == "\"\"\""

Sp(n) == [i \in 1..n |-> " "]

RECURSIVE SeqsUpTo(_, _)
SeqsUpTo(S, n) ==
    IF n = 0 THEN {<<>>}
    ELSE LET shorter == SeqsUpTo(S, n - 1)
         IN shorter \cup {Append(s, x) : s \in {t \in shorter : Len(t) = n - 1}, x \in S}

\* '\n'.join(ls)
RECURSIVE JoinLines(_)
JoinLines(ls) ==
    IF ls = <<>> THEN <<>>
    ELSE IF Len(ls) = 1 THEN ls[1]
    ELSE ls[1] \o <<NL>> \o JoinLines(Tail(ls))

\* text.split('\n')
RECURSIVE SplitLines(_)
SplitLines(text) ==
    LET nls == {i \in 1..Len(text) : text[i] = NL}
    IN IF nls = {} THEN <<text>>
       ELSE LET k == CHOOSE i \in nls : \A j \in nls : i <= j
            IN <<SubSeq(text, 1, k - 1)>> \o SplitLines(SubSeq(text, k + 1, Len(text)))

\* line.strip()
RECURSIVE LStrip(_)
LStrip(line) ==
    IF line # <<>> /\ Head(line) = " " THEN LStrip(Tail(line)) ELSE line

RECURSIVE RStrip(_)
RStrip(line) ==
    IF line # <<>> /\ line[Len(line)] = " "
    THEN RStrip(SubSeq(line, 1, Len(line) - 1)) ELSE line

Strip(line) == RStrip(LStrip(line))

\* line.startswith(prefix)
StartsWith(line, prefix) ==
    /\ Len(line) >= Len(prefix)
    /\ SubSeq(line, 1, Len(prefix)) = prefix

\* needle in line, for a needle that is one word of the token alphabet
Contains(line, needle) == \E i \in 1..Len(line) : line[i] = needle

\* -------------------------------------------------------- find_example_assets
\* A reference is [pat |-> 1, file |-> f] for  assets_folder / "f"  and
\* [pat |-> 2, dir |-> d, file |-> f] for a quoted "d/f", d being assets or figures.
AssetFiles == {"m", "n"}
SubDirs == <<"assets", "figures">>
Refs ==
    {[pat |-> 1, dir |-> "assets_folder", file |-> f] : f \in AssetFiles}
    \cup {[pat |-> 2, dir |-> d, file |-> f] : d \in {"assets", "figures"}, f \in AssetFiles}
AllAssetPaths == {<<d, f>> : d \in {"assets", "figures"}, f \in AssetFiles}

InSeq(x, s) == \E i \in 1..Len(s) : s[i] = x

\* lines 63-67: the loop over the matches of pattern 1
RECURSIVE Pattern1(_, _, _)
Pattern1(refs, exists, acc) ==
    IF refs = <<>> THEN acc
    ELSE LET r == Head(refs)
             asset_path == <<"assets", r.file>>
         IN Pattern1(Tail(refs), exists,
                     IF r.pat = 1 /\ asset_path \in exists
                     THEN Append(acc, asset_path) ELSE acc)

\* the loop of lines 73-76 with a break after the first path found
ProbeSubdirs_FirstOnly(file, exists, acc) ==
    LET p1 == <<SubDirs[1], file>>
        p2 == <<SubDirs[2], file>>
    IN IF p1 \in exists
       THEN (IF ~InSeq(p1, acc) THEN Append(acc, p1) ELSE acc)
       ELSE IF p2 \in exists /\ ~InSeq(p2, acc) THEN Append(acc, p2) ELSE acc

\* lines 73-76: the loop over the two subdirectories for one match of pattern 2
ProbeSubdirs(file, exists, acc) ==
    LET p1 == <<SubDirs[1], file>>
        a1 == IF p1 \in exists /\ ~InSeq(p1, acc) THEN Append(acc, p1) ELSE acc
        p2 == <<SubDirs[2], file>>
    IN IF p2 \in exists /\ ~InSeq(p2, a1) THEN Append(a1, p2) ELSE a1

\* lines 71-76: the loop over the matches of pattern 2
RECURSIVE Pattern2(_, _, _)
Pattern2(refs, exists, acc) ==
    IF refs = <<>> THEN acc
    ELSE LET r == Head(refs)
         IN Pattern2(Tail(refs), exists,
                     IF r.pat = 2 THEN ProbeSubdirs(r.file, exists, acc) ELSE acc)

find_example_assets(refs, exists) == Pattern2(refs, exists, Pattern1(refs, exists, <<>>))

\* ------------------------------------------------------------ the run of main
\* The stems of the source directory's *.py files in the order sorted() gives
\* them ('_' sorts before the lower-case letters).  A name is a token sequence.
SortedStems == << <<"_", "u">>, <<"a">>, <<"b">> >>
Stems == {SortedStems[i] : i \in 1..Len(SortedStems)}
NoExample == [given |-> FALSE, value |-> <<>>]
ExampleArgs ==
    {NoExample} \cup {[given |-> TRUE, value |-> v] : v \in {<<>>, <<"a">>, <<"b">>, <<"z">>}}
Dirs == {"/start", "/elsewhere"}

\* the asset references in the text of each source file
PyRefs(name) ==
    IF name = <<"a">> THEN <<[pat |-> 1, dir |-> "assets_folder", file |-> "m"]>> ELSE <<>>

\* lines 27-50
RECURSIVE find_examples_from(_, _, _)
find_examples_from(i, py, md) ==
    IF i > Len(SortedStems) THEN <<>>
    ELSE LET stem == SortedStems[i]
             rest == find_examples_from(i + 1, py, md)
         IN IF stem \notin py \/ StartsWith(stem, <<"_">>) THEN rest
            ELSE <<[name |-> stem, md |-> stem \in md]>> \o rest

find_examples(py, md) == find_examples_from(1, py, md)

\* lines 364-366: the filter by --example
RECURSIVE FilterByName(_, _)
FilterByName(exs, name) ==
    IF exs = <<>> THEN <<>>
    ELSE IF Head(exs).name = name THEN <<Head(exs)>> \o FilterByName(Tail(exs), name)
    ELSE FilterByName(Tail(exs), name)

\* `if args.example:` is Python truthiness: None and "" are both false
Truthy(arg) == arg.given /\ arg.value # <<>>

Op(kind, name, what) == [op |-> kind, ex |-> name, arg |-> what]

\* lines 118-119: one copy per element of the asset list, under its file name
RECURSIVE CopyOps(_, _)
CopyOps(name, as) ==
    IF as = <<>> THEN <<>>
    ELSE <<Op("copy", name, <<"assets", Head(as)[2]>>)>> \o CopyOps(name, Tail(as))

\* the calls of create_example_repo from mkdir to _create_gitignore, lines 94-125
MaterializeOps(e, exists) ==
    LET as == find_example_assets(PyRefs(e.name), exists)
    IN <<Op("mkdir", e.name, <<".">>),
         Op("copy", e.name, <<"main.py">>),
         Op("write", e.name, <<"main.py">>),
         Op("write", e.name, <<"README.md">>)>>
       \o (IF as # <<>> THEN <<Op("mkdir", e.name, <<"assets">>)>> \o CopyOps(e.name, as)
           ELSE <<>>)
       \o <<Op("write", e.name, <<"requirements.txt">>),
            Op("write", e.name, <<".gitignore">>)>>

PathsOf(ops) == {<<ops[i].ex, ops[i].arg>> : i \in 1..Len(ops)}

MainIdle ==
    /\ content = <<>> /\ lines = <<>> /\ li = 0 /\ cleaned_lines = <<>>
    /\ in_doc_block = FALSE /\ in_with_block = FALSE /\ cpc = "idle" /\ pass = 0
    /\ first = <<>>
    /\ md_content = <<>> /\ readme = <<>> /\ rpc = "idle"
    /\ py_refs = <<>> /\ assets = <<>> /\ apc = "idle"

Init ==
    /\ dry_run \in BOOLEAN
    /\ example \in ExampleArgs
    /\ source_exists \in BOOLEAN
    /\ src_py \in (IF source_exists THEN SUBSET Stems ELSE {{}})
    /\ src_md \in SUBSET (src_py \ {<<"_", "u">>})
    /\ asset_exists \in (IF source_exists THEN {{}, {<<"assets", "m">>}} ELSE {{}})
    /\ pc = "validate"
    /\ examples = <<>>
    /\ idx = 0
    /\ fs = {}
    /\ trace = <<>>
    /\ cwd0 \in Dirs
    /\ cwd = cwd0
    /\ saved_cwd = "unset"
    /\ failed_step = "none"
    /\ status = "running"
    /\ printed = <<>>
    /\ created_repos = <<>>
    /\ MainIdle

inputVars == <<dry_run, example, source_exists, src_py, src_md, asset_exists, cwd0>>
otherVars == <<cleanVars, readmeVars, assetVars>>

\* lines 352-355
Validate ==
    /\ pc = "validate"
    /\ IF ~source_exists
       THEN pc' = "exit" /\ status' = 1
       ELSE pc' = "find" /\ status' = status
    /\ UNCHANGED <<inputVars, otherVars, examples, idx, fs, trace, cwd, saved_cwd,
                   failed_step, printed, created_repos>>

\* lines 360-372
FindAndFilter ==
    /\ pc = "find"
    /\ LET found == find_examples(src_py, src_md)
           kept == IF Truthy(example) THEN FilterByName(found, example.value) ELSE found
       IN IF Truthy(example) /\ kept = <<>>
          THEN pc' = "exit" /\ status' = 1 /\ examples' = kept /\ idx' = idx
          ELSE pc' = "loop" /\ status' = status /\ examples' = kept /\ idx' = 1
    /\ UNCHANGED <<inputVars, otherVars, fs, trace, cwd, saved_cwd, failed_step,
                   printed, created_repos>>

\* create_example_repo without the early return of lines 89-91
ProcessExample_NoDryRunReturn ==
    /\ pc = "loop"
    /\ idx <= Len(examples)
    /\ pc' = "materialize"
    /\ UNCHANGED <<inputVars, otherVars, examples, fs, trace, cwd, saved_cwd,
                   failed_step, status, printed, created_repos, idx>>

\* lines 376-378 and 87-91: the loop takes the next example; create_example_repo
\* returns at once under --dry-run
ProcessExample ==
    /\ pc = "loop"
    /\ idx <= Len(examples)
    /\ IF dry_run
       THEN /\ printed' = Append(printed, examples[idx].name)
            /\ created_repos' = Append(created_repos, examples[idx].name)
            /\ idx' = idx + 1
            /\ pc' = "loop"
       ELSE /\ pc' = "materialize"
            /\ UNCHANGED <<printed, created_repos, idx>>
    /\ UNCHANGED <<inputVars, otherVars, examples, fs, trace, cwd, saved_cwd,
                   failed_step, status>>

\* lines 93-125
Materialize ==
    /\ pc = "materialize"
    /\ LET ops == MaterializeOps(examples[idx], asset_exists)
       IN /\ trace' = trace \o ops
          /\ fs' = fs \cup PathsOf(ops)
    /\ pc' = "git_enter"
    /\ UNCHANGED <<inputVars, otherVars, examples, idx, cwd, saved_cwd, failed_step,
                   status, printed, created_repos>>

\* lines 290-292: cwd = os.getcwd(); os.chdir(repo_dir), which may raise
InitGitEnter ==
    /\ pc = "git_enter"
    /\ saved_cwd' = cwd
    /\ \/ /\ cwd' = examples[idx].name
          /\ trace' = Append(trace, Op("chdir", examples[idx].name, <<".">>))
          /\ pc' = "git_init"
          /\ UNCHANGED failed_step
       \/ /\ failed_step' = "chdir"
          /\ pc' = "git_finally"
          /\ UNCHANGED <<cwd, trace>>
    /\ UNCHANGED <<inputVars, otherVars, examples, idx, fs, status, printed,
                   created_repos>>

\* subprocess.run without check=True: the failure is noticed but the next step runs
RunGit_NoCheck(at, cmd, effect, next) ==
    /\ pc = at
    /\ trace' = Append(trace, Op("git", examples[idx].name, <<cmd>>))
    /\ \/ /\ fs' = fs \cup effect
          /\ UNCHANGED failed_step
       \/ /\ failed_step' = cmd
          /\ UNCHANGED fs
    /\ pc' = next
    /\ UNCHANGED <<inputVars, otherVars, examples, idx, cwd, saved_cwd, status,
                   printed, created_repos>>

\* subprocess.run(['git', cmd, ...], check=True): a non-zero exit status raises
RunGit(at, cmd, effect, next) ==
    /\ pc = at
    /\ trace' = Append(trace, Op("git", examples[idx].name, <<cmd>>))
    /\ \/ /\ fs' = fs \cup effect
          /\ pc' = next
          /\ UNCHANGED failed_step
       \/ /\ failed_step' = cmd
          /\ pc' = "git_finally"
          /\ UNCHANGED fs
    /\ UNCHANGED <<inputVars, otherVars, examples, idx, cwd, saved_cwd, status,
                   printed, created_repos>>

\* line 295
GitInit == RunGit("git_init", "init", {<<examples[idx].name, <<".git">>>>}, "git_add")
\* line 298
GitAdd == RunGit("git_add", "add", {<<examples[idx].name, <<".git", "index">>>>}, "git_commit")
\* lines 301-305
GitCommit ==
    RunGit("git_commit", "commit", {<<examples[idx].name, <<".git", "commit">>>>},
           "git_finally")

\* os.chdir(cwd) as the last statement of the try body instead of a finally clause
InitGitFinally_NoFinally ==
    /\ pc = "git_finally"
    /\ IF failed_step # "none"
       THEN /\ pc' = "raised"
            /\ status' = "raised"
            /\ UNCHANGED <<created_repos, idx, cwd>>
       ELSE /\ pc' = "loop"
            /\ cwd' = saved_cwd
            /\ created_repos' = Append(created_repos, examples[idx].name)
            /\ idx' = idx + 1
            /\ UNCHANGED status
    /\ UNCHANGED <<inputVars, otherVars, examples, fs, trace, saved_cwd, failed_step,
                   printed>>

\* lines 307-308, then 130-131 and 379: the finally clause restores the working
\* directory; a pending exception then leaves create_example_repo and main
InitGitFinally ==
    /\ pc = "git_finally"
    /\ cwd' = saved_cwd
    /\ IF failed_step # "none"
       THEN /\ pc' = "raised"
            /\ status' = "raised"
            /\ UNCHANGED <<created_repos, idx>>
       ELSE /\ pc' = "loop"
            /\ created_repos' = Append(created_repos, examples[idx].name)
            /\ idx' = idx + 1
            /\ UNCHANGED status
    /\ UNCHANGED <<inputVars, otherVars, examples, fs, trace, saved_cwd, failed_step,
                   printed>>

\* lines 382-394
Summary ==
    /\ pc = "loop"
    /\ idx > Len(examples)
    /\ pc' = "exit"
    /\ status' = 0
    /\ UNCHANGED <<inputVars, otherVars, examples, idx, fs, trace, cwd, saved_cwd,
                   failed_step, printed, created_repos>>

Next ==
    \/ Validate
    \/ FindAndFilter
    \/ ProcessExample
    \/ Materialize
    \/ InitGitEnter
    \/ GitInit
    \/ GitAdd
    \/ GitCommit
    \/ InitGitFinally
    \/ Summary

Spec == Init /\ [][Next]_vars

\* ---------------------------------------------------------- _clean_python_file
RunIdle ==
    /\ dry_run = FALSE /\ example = NoExample /\ source_exists = TRUE
    /\ src_py = {} /\ src_md = {} /\ pc = "idle" /\ examples = <<>> /\ idx = 0
    /\ fs = {} /\ trace = <<>> /\ cwd = "/start" /\ cwd0 = "/start"
    /\ saved_cwd = "unset" /\ failed_step = "none" /\ status = "running"
    /\ printed = <<>> /\ created_repos = <<>>

\* the lines the source files are made of
CleanLineSet ==
    { <<>>,
      <<"x">>,
      Sp(4) \o <<"x">>,
      Sp(8) \o <<"x">>,
      Sp(4),
      <<" ", "doc @", QQQ>>,
      <<QQQ>>,
      <<QQQ, "MAKE_DOCS">>,
      <<"doc @", "MAKE_DOCS">>,
      <<"with doc">>,
      <<"from contextlib import nullcontext">>,
      <<"from cmx import doc">>,
      <<"MAKE_DOCS", " ", "=">> }

InitClean ==
    /\ RunIdle
    /\ asset_exists = {}
    /\ md_content = <<>> /\ readme = <<>> /\ rpc = "idle"
    /\ py_refs = <<>> /\ assets = <<>> /\ apc = "idle"
    /\ content \in {JoinLines(ls) : ls \in SeqsUpTo(CleanLineSet, MaxLines) \ {<<>>}}
    /\ lines = <<>> /\ li = 0 /\ cleaned_lines = <<>>
    /\ in_doc_block = FALSE /\ in_with_block = FALSE
    /\ cpc = "read" /\ pass = 1 /\ first = <<>>

cleanFrame == <<mainVars, readmeVars, assetVars, asset_exists>>

\* lines 174-180
ReadFile ==
    /\ cpc = "read"
    /\ lines' = SplitLines(content)
    /\ cleaned_lines' = <<>>
    /\ in_doc_block' = FALSE
    /\ in_with_block' = FALSE
    /\ li' = 1
    /\ cpc' = "loop"
    /\ UNCHANGED <<cleanFrame, content, pass, first>>

\* the drop rule that mistakes every line of a doc block for its last
CleanStep_ExitOnAnyLine(line, doc, with) ==
    IF Contains(line, "from cmx import doc") \/ Contains(line, "MAKE_DOCS")
    THEN [keep |-> FALSE, doc |-> doc, with |-> with]
    ELSE IF StartsWith(Strip(line), <<"MAKE_DOCS", " ", "=">>)
    THEN [keep |-> FALSE, doc |-> doc, with |-> with]
    ELSE IF StartsWith(Strip(line), <<"doc @">>)
    THEN [keep |-> FALSE, doc |-> TRUE, with |-> with]
    ELSE IF doc
    THEN [keep |-> FALSE, doc |-> FALSE, with |-> with]
    ELSE IF Contains(line, "with doc")
    THEN [keep |-> FALSE, doc |-> doc, with |-> TRUE]
    ELSE IF Contains(line, "from contextlib import nullcontext")
    THEN [keep |-> FALSE, doc |-> doc, with |-> with]
    ELSE [keep |-> TRUE, doc |-> doc, with |-> with]

\* lines 183-211: what one pass of the loop body does with `line`
CleanStep(line, doc, with) ==
    IF Contains(line, "from cmx import doc") \/ Contains(line, "MAKE_DOCS")
    THEN [keep |-> FALSE, doc |-> doc, with |-> with]
    ELSE IF StartsWith(Strip(line), <<"MAKE_DOCS", " ", "=">>)
    THEN [keep |-> FALSE, doc |-> doc, with |-> with]
    ELSE IF StartsWith(Strip(line), <<"doc @">>)
    THEN [keep |-> FALSE, doc |-> TRUE, with |-> with]
    ELSE IF doc
    THEN [keep |-> FALSE, doc |-> (IF Contains(line, QQQ) THEN FALSE ELSE doc),
          with |-> with]
    ELSE IF Contains(line, "with doc")
    THEN [keep |-> FALSE, doc |-> doc, with |-> TRUE]
    ELSE IF Contains(line, "from contextlib import nullcontext")
    THEN [keep |-> FALSE, doc |-> doc, with |-> with]
    ELSE [keep |-> TRUE, doc |-> doc, with |-> with]

\* lines 182-211: one iteration of the loop
CleanLine ==
    /\ cpc = "loop"
    /\ li <= Len(lines)
    /\ LET r == CleanStep(lines[li], in_doc_block, in_with_block)
       IN /\ in_doc_block' = r.doc
          /\ in_with_block' = r.with
          /\ cleaned_lines' = IF r.keep THEN Append(cleaned_lines, lines[li])
                              ELSE cleaned_lines
    /\ li' = li + 1
    /\ UNCHANGED <<cleanFrame, content, lines, cpc, pass, first>>

\* the loop of lines 214-215 with == '' in place of .strip() == ''
RECURSIVE DropLeadingBlank_EmptyOnly(_)
DropLeadingBlank_EmptyOnly(ls) ==
    IF ls # <<>> /\ ls[1] = <<>> THEN DropLeadingBlank_EmptyOnly(Tail(ls)) ELSE ls

\* lines 214-215
RECURSIVE DropLeadingBlank(_)
DropLeadingBlank(ls) ==
    IF ls # <<>> /\ Strip(ls[1]) = <<>> THEN DropLeadingBlank(Tail(ls)) ELSE ls

\* lines 213-215, after the loop has ended
StripLeading ==
    /\ cpc = "loop"
    /\ li > Len(lines)
    /\ cleaned_lines' = DropLeadingBlank(cleaned_lines)
    /\ cpc' = "dedent"
    /\ UNCHANGED <<cleanFrame, content, lines, li, in_doc_block, in_with_block,
                   pass, first>>

\* line 218: line and line.startswith('    ')
IsIndented(line) == line # <<>> /\ StartsWith(line, Sp(4))

\* lines 218-223 with >= 0.5 in place of > 0.5
DedentLines_AtLeastHalf(ls) ==
    LET indented_count == Len(SelectSeq(ls, IsIndented))
        total_lines == Len(SelectSeq(ls, LAMBDA l : Strip(l) # <<>>))
    IN IF total_lines > 0 /\ 2 * indented_count >= total_lines
       THEN [i \in 1..Len(ls) |->
                IF StartsWith(ls[i], Sp(4)) THEN SubSeq(ls[i], 5, Len(ls[i])) ELSE ls[i]]
       ELSE ls

\* lines 218-223: indented_count / total_lines > 0.5 is 2 * indented_count > total_lines
DedentLines(ls) ==
    LET indented_count == Len(SelectSeq(ls, IsIndented))
        total_lines == Len(SelectSeq(ls, LAMBDA l : Strip(l) # <<>>))
    IN IF total_lines > 0 /\ 2 * indented_count > total_lines
       THEN [i \in 1..Len(ls) |->
                IF StartsWith(ls[i], Sp(4)) THEN SubSeq(ls[i], 5, Len(ls[i])) ELSE ls[i]]
       ELSE ls

\* lines 217-225
Dedent ==
    /\ cpc = "dedent"
    /\ cleaned_lines' = DedentLines(cleaned_lines)
    /\ content' = JoinLines(cleaned_lines')
    /\ cpc' = "done"
    /\ UNCHANGED <<cleanFrame, lines, li, in_doc_block, in_with_block, pass, first>>

\* _clean_python_file is called again on the file it has written
CleanAgain ==
    /\ cpc = "done"
    /\ pass = 1
    /\ first' = content
    /\ pass' = 2
    /\ cpc' = "read"
    /\ UNCHANGED <<cleanFrame, content, lines, li, cleaned_lines, in_doc_block,
                   in_with_block>>

NextClean ==
    \/ ReadFile
    \/ CleanLine
    \/ StripLeading
    \/ Dedent
    \/ CleanAgain

SpecClean == InitClean /\ [][NextClean]_vars

\* -------------------------------------------------------- _create_clean_readme
\* the three-backquote fence markers, one word each
Fence == "<fence>"
FencePython == "<fence>python"
FenceBash == "<fence>bash"

DocLineSet ==
    { <<>>,
      <<"t">>,
      <<FencePython>>,
      <<" ", FencePython, " ">>,
      <<FencePython, "t">>,
      <<Fence>>,
      <<Fence, " ">> }

\* lines 158-168, each line one word (the backquotes around the URL left out)
UsageSection ==
    << <<>>,
       <<"## Usage">>,
       <<>>,
       <<FenceBash>>,
       <<"pip install -r requirements.txt">>,
       <<"python main.py">>,
       <<Fence>>,
       <<>>,
       <<"Then open your browser to http://localhost:8012">> >>

\* the loop of lines 140-155 without the continue of line 149
RECURSIVE ReadmeLoop_KeepsClosingMarker(_, _, _)
ReadmeLoop_KeepsClosingMarker(ls, in_code_block, acc) ==
    IF ls = <<>> THEN acc
    ELSE LET line == Head(ls)
         IN IF Strip(line) = <<FencePython>>
            THEN ReadmeLoop_KeepsClosingMarker(Tail(ls), TRUE, acc)
            ELSE IF in_code_block /\ Strip(line) = <<Fence>>
            THEN ReadmeLoop_KeepsClosingMarker(Tail(ls), FALSE, Append(acc, line))
            ELSE IF in_code_block
            THEN ReadmeLoop_KeepsClosingMarker(Tail(ls), in_code_block, acc)
            ELSE ReadmeLoop_KeepsClosingMarker(Tail(ls), in_code_block, Append(acc, line))

\* lines 140-155
RECURSIVE ReadmeLoop(_, _, _)
ReadmeLoop(ls, in_code_block, acc) ==
    IF ls = <<>> THEN acc
    ELSE LET line == Head(ls)
         IN IF Strip(line) = <<FencePython>>
            THEN ReadmeLoop(Tail(ls), TRUE, acc)
            ELSE IF in_code_block /\ Strip(line) = <<Fence>>
            THEN ReadmeLoop(Tail(ls), FALSE, acc)
            ELSE IF in_code_block
            THEN ReadmeLoop(Tail(ls), in_code_block, acc)
            ELSE ReadmeLoop(Tail(ls), in_code_block, Append(acc, line))

\* lines 135-170: the text written to README.md for the documentation text
create_clean_readme(text) ==
    JoinLines(ReadmeLoop(SplitLines(text), FALSE, <<>>) \o UsageSection)

InitReadme ==
    /\ RunIdle
    /\ asset_exists = {}
    /\ content = <<>> /\ lines = <<>> /\ li = 0 /\ cleaned_lines = <<>>
    /\ in_doc_block = FALSE /\ in_with_block = FALSE /\ cpc = "idle" /\ pass = 0
    /\ first = <<>>
    /\ py_refs = <<>> /\ assets = <<>> /\ apc = "idle"
    /\ md_content \in {JoinLines(ls) : ls \in SeqsUpTo(DocLineSet, MaxDocLines) \ {<<>>}}
    /\ readme = <<>>
    /\ rpc = "start"

\* lines 133-170
CreateCleanReadme ==
    /\ rpc = "start"
    /\ readme' = create_clean_readme(md_content)
    /\ rpc' = "written"
    /\ UNCHANGED <<mainVars, cleanVars, assetVars, asset_exists, md_content>>

NextReadme == CreateCleanReadme

SpecReadme == InitReadme /\ [][NextReadme]_vars

\* ------------------------------------------------- find_example_assets, called
InitAssets ==
    /\ RunIdle
    /\ content = <<>> /\ lines = <<>> /\ li = 0 /\ cleaned_lines = <<>>
    /\ in_doc_block = FALSE /\ in_with_block = FALSE /\ cpc = "idle" /\ pass = 0
    /\ first = <<>>
    /\ md_content = <<>> /\ readme = <<>> /\ rpc = "idle"
    /\ py_refs \in SeqsUpTo(Refs, MaxRefs)
    /\ asset_exists \in SUBSET AllAssetPaths
    /\ assets = <<>>
    /\ apc = "pattern1"

\* lines 57-67
ScanPattern1 ==
    /\ apc = "pattern1"
    /\ assets' = Pattern1(py_refs, asset_exists, <<>>)
    /\ apc' = "pattern2"
    /\ UNCHANGED <<mainVars, cleanVars, readmeVars, asset_exists, py_refs>>

\* lines 69-78
ScanPattern2 ==
    /\ apc = "pattern2"
    /\ assets' = Pattern2(py_refs, asset_exists, assets)
    /\ apc' = "returned"
    /\ UNCHANGED <<mainVars, cleanVars, readmeVars, asset_exists, py_refs>>

NextAssets == ScanPattern1 \/ ScanPattern2

SpecAssets == InitAssets /\ [][NextAssets]_vars

\* ------------------------------------------------------- claims on the run
NamesOf(exs) == [i \in 1..Len(exs) |-> exs[i].name]
InsideInitGit == pc \in {"git_init", "git_add", "git_commit", "git_finally"}
GitSteps == <<"init", "add", "commit">>
GitCmdsOf(name) ==
    LET t == SelectSeq(trace, LAMBDA o : o.op = "git" /\ o.ex = name)
    IN [i \in 1..Len(t) |-> t[i].arg[1]]
Touched(name) ==
    \/ \E p \in fs : p[1] = name
    \/ \E i \in 1..Len(trace) : trace[i].ex = name

\* C1: under --dry-run no mkdir, copy, write, chdir or git call is ever made,
\* for any number of discovered examples, and the run only reports the
\* repository of each example in order.
C1_DryRunMutatesNothing ==
    dry_run =>
        /\ trace = <<>>
        /\ fs = {}
        /\ cwd = cwd0
        /\ pc \notin {"materialize", "git_enter", "raised"} /\ ~InsideInitGit
        /\ (pc = "exit" /\ status = 0 => printed = NamesOf(examples))

C1_Witness ==
    dry_run /\ pc = "exit" /\ status = 0 /\ Len(examples) = 2 /\ Len(printed) = 2

\* C2: whenever the run is outside _init_git_repo, after a return as after a
\* propagated error of chdir, git init, git add or git commit, the working
\* directory is the one the call started in.
C2_CwdRestored ==
    ~InsideInitGit =>
        /\ cwd = cwd0
        /\ (saved_cwd # "unset" /\ pc # "git_enter" => cwd = saved_cwd)

C2_Witness ==
    /\ pc = "raised" /\ failed_step = "commit" /\ cwd = cwd0
    /\ \E i \in 1..Len(trace) : trace[i].op = "chdir"

\* C3, the state a failed git step leaves: the git commands of the example
\* are the steps up to the failed one, each run once; its files and the
\* earlier examples' committed repositories are in place; no later example
\* is touched.
C3_FailureState ==
    (pc = "raised" /\ failed_step \in {"init", "add", "commit"}) =>
        LET e == examples[idx]
            k == CHOOSE i \in 1..3 : GitSteps[i] = failed_step
        IN /\ status = "raised"
           /\ GitCmdsOf(e.name) = SubSeq(GitSteps, 1, k)
           /\ PathsOf(MaterializeOps(e, asset_exists)) \subseteq fs
           /\ \A j \in 1..(idx - 1) :
                 /\ PathsOf(MaterializeOps(examples[j], asset_exists)) \subseteq fs
                 /\ <<examples[j].name, <<".git", "commit">>>> \in fs
                 /\ GitCmdsOf(examples[j].name) = GitSteps
           /\ \A j \in (idx + 1)..Len(examples) : ~Touched(examples[j].name)
           /\ created_repos = NamesOf(SubSeq(examples, 1, idx - 1))

C3_StepAfterFailure ==
    failed_step \in {"init", "add", "commit"} =>
        /\ pc = "git_finally" /\ pc' = "raised"
        /\ trace' = trace /\ fs' = fs /\ idx' = idx

\* C3: once a git step has failed the only step the run takes is the exit
\* from _init_git_repo into the propagated error, which runs no command and
\* writes nothing; nothing is retried and the run then stops in the state
\* described above.
C3_GitFailureIsFatal == []C3_FailureState /\ [][C3_StepAfterFailure]_vars

C3_Witness ==
    /\ pc = "raised" /\ failed_step = "add" /\ idx = 1 /\ Len(examples) = 2
    /\ <<examples[1].name, <<"main.py">>>> \in fs

\* C4: a missing source directory, or an --example that names no discovered
\* example, ends the run with status 1 and without any directory, file or
\* git call; every other run that ends without an error returns 0.
C4_ExitStatus ==
    LET found == IF source_exists THEN find_examples(src_py, src_md) ELSE <<>>
        unmatched == example.given /\ \A i \in 1..Len(found) : found[i].name # example.value
        misconfigured == ~source_exists \/ unmatched
    IN /\ misconfigured => trace = <<>> /\ fs = {} /\ pc # "raised"
       /\ pc = "exit" => status = (IF misconfigured THEN 1 ELSE 0)

\* --------------------------------------------------- claims on the cleaner
AtLine == cpc = "loop" /\ li <= Len(lines)
Dropped == cleaned_lines' = cleaned_lines
MatchesImportRule(line) ==
    Contains(line, "from cmx import doc") \/ Contains(line, "MAKE_DOCS")
StartsDoc(line) == StartsWith(Strip(line), <<"doc @">>)

C8_OriginalStep ==
    AtLine =>
        /\ (~in_doc_block /\ StartsDoc(lines[li]) => Dropped /\ in_doc_block')
        /\ (in_doc_block => Dropped /\ in_doc_block' = ~Contains(lines[li], QQQ))

\* C8 as stated: a line that starts with 'doc @' is dropped and enters
\* doc-block mode; in that mode every line is dropped and the first line
\* with a triple quote leaves the mode, whatever else the line matches.
C8_Original == [][C8_OriginalStep]_vars

C8_AmendedStep ==
    AtLine =>
        LET line == lines[li]
            enters == StartsDoc(line) /\ ~MatchesImportRule(line)
            leaves == Contains(line, QQQ) /\ ~MatchesImportRule(line) /\ ~StartsDoc(line)
        IN /\ (enters => Dropped /\ in_doc_block')
           /\ (in_doc_block => Dropped /\ in_doc_block' = ~leaves)
           /\ (~in_doc_block /\ ~enters => ~in_doc_block')

\* C8 amended: a line that starts with 'doc @' and contains neither
\* 'from cmx import doc' nor 'MAKE_DOCS' is dropped and enters doc-block
\* mode, and no other line enters it; in the mode every line is dropped,
\* and the mode is left exactly by a line that contains a triple quote,
\* contains neither of the two substrings and does not start with 'doc @'.
C8_DocBlockMode == [][C8_AmendedStep]_vars

C8_Witness ==
    /\ cpc = "loop" /\ pass = 1 /\ li = 4 /\ Len(lines) = 3
    /\ StartsDoc(lines[1])
    /\ lines[2] = <<QQQ, "MAKE_DOCS">>
    /\ lines[3] = <<QQQ>>
    /\ ~in_doc_block /\ cleaned_lines = <<>>

HasFour(line) == Len(line) >= 4 /\ \A j \in 1..4 : line[j] = " "
ExactlyFour(line) == HasFour(line) /\ Len(line) > 4 /\ line[5] # " "
CutFour(line) == [j \in 1..(Len(line) - 4) |-> line[j + 4]]
NonBlank(ls) == {i \in 1..Len(ls) : \E j \in 1..Len(ls[i]) : ls[i][j] # " "}

C9_OriginalStep ==
    cpc = "dedent" =>
        LET ls == cleaned_lines
            hit == {i \in NonBlank(ls) : ExactlyFour(ls[i])}
            fires == NonBlank(ls) # {} /\ 2 * Cardinality(hit) > Cardinality(NonBlank(ls))
        IN cleaned_lines' =
               [i \in 1..Len(ls) |-> IF fires /\ i \in hit THEN CutFour(ls[i]) ELSE ls[i]]

\* C9 as stated: the dedent counts the non-blank lines with exactly four
\* leading spaces, and if they are more than half of the non-blank lines it
\* cuts four spaces from those lines and leaves every other line unchanged.
C9_Original == [][C9_OriginalStep]_vars

C9_AmendedStep ==
    cpc = "dedent" =>
        LET ls == cleaned_lines
            hit == {i \in 1..Len(ls) : HasFour(ls[i])}
            fires == NonBlank(ls) # {} /\ 2 * Cardinality(hit) > Cardinality(NonBlank(ls))
        IN /\ cleaned_lines' =
                 [i \in 1..Len(ls) |-> IF fires /\ i \in hit THEN CutFour(ls[i]) ELSE ls[i]]
           /\ content' = JoinLines(cleaned_lines')

\* C9 amended: the dedent counts the lines that start with at least four
\* spaces (whitespace-only lines included), and if they are more than half
\* of the non-blank lines it cuts the first four spaces from every such
\* line; lines with fewer than four leading spaces are left unchanged.
C9_Dedent == [][C9_AmendedStep]_vars

C9_Witness ==
    /\ cpc = "done" /\ pass = 1
    /\ lines = <<Sp(8) \o <<"x">>, Sp(4), <<"x">>>>
    /\ cleaned_lines = <<Sp(4) \o <<"x">>, <<>>, <<"x">>>>

\* C5 as stated: cleaning the cleaned text gives the cleaned text.
C5_Original == (cpc = "done" /\ pass = 2) => content = first

FirstLines == SplitLines(first)
FirstFires ==
    /\ NonBlank(FirstLines) # {}
    /\ 2 * Cardinality({i \in 1..Len(FirstLines) : HasFour(FirstLines[i])})
         > Cardinality(NonBlank(FirstLines))

\* C5 amended: on the output of one cleaning, the line filter and the
\* removal of leading blank lines change nothing, so a second cleaning
\* differs from the first only by its dedent: it yields the same text
\* exactly when the first output does not meet the dedent condition (more
\* than half as many lines with four leading spaces as non-blank lines).
C5_IdempotentUpToDedent ==
    pass = 2 =>
        /\ (cpc = "dedent" => JoinLines(cleaned_lines) = first)
        /\ (cpc = "done" => (content = first <=> ~FirstFires))

C5_Witness ==
    /\ pass = 2 /\ cpc = "done"
    /\ first = JoinLines(<<Sp(4) \o <<"x">>, <<"x">>, <<"x">>>>)
    /\ content = first

\* ---------------------------------------------------- claims on the README
DocLines == SplitLines(md_content)
IsOpening(line) == Strip(line) = <<FencePython>>
IsClosing(line) == Strip(line) = <<Fence>>
\* line i is the opening marker of a python block, lies inside one, or closes it
InPythonBlock(i) ==
    \E j \in 1..i :
        /\ IsOpening(DocLines[j])
        /\ \A k \in (j + 1)..(i - 1) : ~IsClosing(DocLines[k])
OutsideLines ==
    LET keep == {i \in 1..Len(DocLines) : ~InPythonBlock(i)}
        nth(n) == CHOOSE i \in keep : Cardinality({h \in keep : h < i}) = n - 1
    IN [n \in 1..Cardinality(keep) |-> DocLines[nth(n)]]

\* C7: the README holds, in order, exactly the lines of the documentation
\* file that are outside every block opened by a FencePython line (the
\* opening line, the lines inside and the closing line are gone, also when
\* the block is never closed), and ends with the fixed usage section.
C7_ReadmeHasNoPythonBlock ==
    rpc = "written" =>
        LET out == SplitLines(readme)
            n == Len(out) - Len(UsageSection)
        IN /\ n >= 0
           /\ SubSeq(out, n + 1, Len(out)) = UsageSection
           /\ SubSeq(out, 1, n) = OutsideLines

C7_Witness ==
    /\ rpc = "written"
    /\ DocLines = << <<Fence>>, <<" ", FencePython, " ">>, <<"t">> >>
    /\ readme = JoinLines(<< <<Fence>> >> \o UsageSection)

\* ------------------------------------------- claims on find_example_assets
IndicesOf(p) == {i \in 1..Len(assets) : assets[i] = p}
Candidates(pat) == {py_refs[i].file : i \in {h \in 1..Len(py_refs) : py_refs[h].pat = pat}}

\* C6: the returned list holds each resolved path at most once.
C6_NoDuplicates ==
    apc = "returned" => \A p \in AllAssetPaths : Cardinality(IndicesOf(p)) <= 1

\* C10 as stated: every candidate file name of either pattern is probed
\* under assets and then figures, and the first path that exists, and only
\* that one, is in the result.
C10_Original ==
    apc = "returned" =>
        \A f \in Candidates(1) \cup Candidates(2) :
            LET got == {p \in AllAssetPaths : p[2] = f /\ IndicesOf(p) # {}}
            IN got = IF <<"assets", f>> \in asset_exists THEN {<<"assets", f>>}
                     ELSE IF <<"figures", f>> \in asset_exists THEN {<<"figures", f>>}
                     ELSE {}

\* C10 amended: a candidate of the assets_folder pattern is probed under
\* assets only; a candidate of the quoted-path pattern is probed under
\* assets and then figures, and each of the two paths that exists is in the
\* result, so one candidate contributes up to two paths, the assets path
\* before the figures path; a figures path is listed once.
C10_ProbeOrder ==
    apc = "returned" =>
        \A f \in AssetFiles :
            LET a == <<"assets", f>>
                g == <<"figures", f>>
            IN /\ IndicesOf(a) # {} <=>
                      (f \in Candidates(1) \cup Candidates(2) /\ a \in asset_exists)
               /\ IndicesOf(g) # {} <=> (f \in Candidates(2) /\ g \in asset_exists)
               /\ Cardinality(IndicesOf(g)) <= 1
               /\ \A i \in IndicesOf(a), j \in IndicesOf(g) : i < j

C10_Witness ==
    /\ apc = "returned"
    /\ py_refs = <<[pat |-> 2, dir |-> "figures", file |-> "m"]>>
    /\ assets = << <<"assets", "m">>, <<"figures", "m">> >>

====
